---- MODULE Spec2Model ----
(***************************************************************************)
(* Model of neuralpp/symbolic/interval.py: ClosedInterval, DottedIntervals *)
(* and the bound extractor from_constraints with its two helpers.          *)
(*                                                                         *)
(* One behaviour is one call from_constraints(index, constraint), its loop *)
(* taken one child at a time, followed by the operations a caller applies  *)
(* to the returned interval (__iter__, to_context).                        *)
(*                                                                         *)
(* Python positions are kept: Sub(e, i) is e.subexpressions[i].            *)
(***************************************************************************)
EXTENDS Integers, Sequences, FiniteSets

VARIABLES constraint, pos, closed_interval, exceptions, pc, result,
          iter_result, method_result, context_result

vars == <<constraint, pos, closed_interval, exceptions, pc, result,
          iter_result, method_result, context_result>>

(* ------------------------------ bounds -------------------------------- *)

\* integer constants that occur as bound expressions are 1 .. MaxConst
MaxConst == 3
\* children of the conjunction handed to from_constraints
MaxChildren == 2

(* ------------------- the Expression interface ------------------------- *)

\* Python's None (ClosedInterval(None, None), interval.py line 113)
None == [kind |-> "None"]

\* an integer Constant: value and type tag (matched at interval.py line 55)
Constant(v) == [kind |-> "Constant", value |-> v, type |-> "int"]

\* a Constant holding a Python operator (read at interval.py line 132)
OperatorConstant(op) == [kind |-> "Constant", value |-> op, type |-> "callable"]

Variable(n) == [kind |-> "Variable", name |-> n]

\* FunctionApplication: subexpressions = [function, argument, argument]
FunctionApplication(op, lhs, rhs) ==
    [kind |-> "FunctionApplication",
     subexpressions |-> <<OperatorConstant(op), lhs, rhs>>]

\* e.subexpressions[i], i counted from 0 as in the source
Sub(e, i) == e.subexpressions[i + 1]

\* structural equality of two expressions
syntactic_eq(a, b) == a = b

\* isinstance(e, FunctionApplication)
IsFunctionApplication(e) == e.kind = "FunctionApplication"

\* the pattern Constant(value=_, type=builtins.int)
IsIntConstant(e) == e.kind = "Constant" /\ e.type = "int"

\* Python truth value of an object: None is false, an Expression object is true
Truthy(e) == e.kind # "None"

\* a raised Python exception
Raise(err) == [status |-> "raise", error |-> err]

IsRaise(r) == r.status = "raise"

\* the index variable the caller passes
index == Variable("x")

(* --------------------------- ClosedInterval --------------------------- *)

ClosedInterval(lower_bound, upper_bound) ==
    [lower_bound |-> lower_bound, upper_bound |-> upper_bound]

DottedIntervals(interval, dots) == [interval |-> interval, dots |-> dots]

\* ClosedInterval.set(i, new_expression): a new interval for i = 0 or 1,
\* IndexError for any other i
set(ci, i, new_expression) ==
    CASE i = 0 -> ClosedInterval(new_expression, ci.upper_bound)
      [] i = 1 -> ClosedInterval(ci.lower_bound, new_expression)
      [] OTHER -> Raise("IndexError")

\* Python's range(l, r) as a sequence: l, l+1, ..., r-1
range(l, r) == [k \in 1 .. (IF r > l THEN r - l ELSE 0) |-> l + k - 1]

\* ClosedInterval.__iter__, called as a method: the range object range(l, r)
\* for two int Constants, else TypeError
ClosedInterval_iter(ci) ==
    IF IsIntConstant(ci.lower_bound) /\ IsIntConstant(ci.upper_bound)
    THEN [status |-> "ok", type |-> "range",
          values |-> range(ci.lower_bound.value, ci.upper_bound.value)]
    ELSE Raise("TypeError")

\* iter(interval), list(interval), for v in interval: Python calls __iter__
\* and accepts its result only if it is an iterator; the range object line 56
\* returns is an iterable but no iterator, so the enumeration raises TypeError
Enumerate(ci) ==
    LET r == ClosedInterval_iter(ci)
    IN  IF IsRaise(r) THEN r
        ELSE IF r.type = "iterator" THEN r
        ELSE Raise("TypeError")

\* outcomes of Expression.__and__ on non-boolean operands
AndOutcomes == {"raise", "expr"}

\* l & r
BitAnd(l, r, o) ==
    IF o = "raise" THEN Raise("TypeError")
    ELSE [status |-> "ok", value |-> FunctionApplication("and_", l, r)]

\* l >= r, l <= r on expressions: a new relation, never a Context
Compare(op, l, r) == FunctionApplication(op, l, r)

\* isinstance(e, Context)
IsContext(e) == e.kind = "Context"

\* to_context without the assertion of line 66: the result is returned as is
to_context_unasserted(ci, idx, o) ==
    LET a == BitAnd([kind |-> "Context", assertions |-> {}], idx, o)
        b == BitAnd(ci.lower_bound, idx, o)
    IN  IF IsRaise(a) THEN a
        ELSE IF IsRaise(b) THEN b
        ELSE LET first == Compare("ge", a.value, b.value)
                 res == IF Truthy(first)
                        THEN Compare("le", b.value, ci.upper_bound)
                        ELSE first
             IN  [status |-> "ok", value |-> res]

\* ClosedInterval.to_context(index).  Python binds & tighter than >= and <=,
\* so line 65 reads (Z3SolverExpression() & index) >= (lower & index) <= upper,
\* a chained comparison: (a >= b) and (b <= upper).
to_context(ci, idx, o) ==
    LET a == BitAnd([kind |-> "Context", assertions |-> {}], idx, o)
        b == BitAnd(ci.lower_bound, idx, o)
    IN  IF IsRaise(a) THEN a
        ELSE IF IsRaise(b) THEN b
        ELSE LET first == Compare("ge", a.value, b.value)
                 res == IF Truthy(first)
                        THEN Compare("le", b.value, ci.upper_bound)
                        ELSE first
             IN  IF IsContext(res) THEN [status |-> "ok", value |-> res]
                 ELSE Raise("AssertionError")

(* --------------------------- bound extractor -------------------------- *)

\* outcomes of calling an Expression object, closed_interval.lower_bound()
CallOutcomes == {"raise", "expr"}

\* bound >= closed_interval.lower_bound() (and <= upper_bound()): the property
\* value is called; the call raises, or yields an expression, and then the
\* comparison is an Expression object, which is true as a condition
CompareWithCalled(op, bound, current, call) ==
    IF call = "raise" THEN Raise("TypeError")
    ELSE [status |-> "ok", value |-> Compare(op, bound, FunctionApplication("call", current, None))]

Ok(ci, ex) == [status |-> "ok", closed_interval |-> ci, exceptions |-> ex]

\* _check_and_set_bounds whose case 1 tests the lower bound for None
\* (the test of case 0 pasted into case 1)
_check_and_set_bounds_pasted(i, bound, ci, ex, call) ==
    CASE i = 0 ->
           IF ci.lower_bound = None THEN Ok(set(ci, 0, bound), ex)
           ELSE LET c == CompareWithCalled("ge", bound, ci.lower_bound, call)
                IN  IF IsRaise(c) THEN c
                    ELSE IF Truthy(c.value) THEN Ok(set(ci, 0, bound), ex)
                    ELSE Ok(ci, ex)
      [] i = 1 ->
           IF ci.lower_bound = None THEN Ok(set(ci, 1, bound), ex)
           ELSE LET c == CompareWithCalled("le", bound, ci.upper_bound, call)
                IN  IF IsRaise(c) THEN c
                    ELSE IF Truthy(c.value) THEN Ok(set(ci, 1, bound), ex)
                    ELSE Ok(ci, ex)
      [] OTHER -> Raise("IndexError")

\* lines 174-190
_check_and_set_bounds(i, bound, ci, ex, call) ==
    CASE i = 0 ->
           IF ci.lower_bound = None THEN Ok(set(ci, 0, bound), ex)
           ELSE LET c == CompareWithCalled("ge", bound, ci.lower_bound, call)
                IN  IF IsRaise(c) THEN c
                    ELSE IF Truthy(c.value) THEN Ok(set(ci, 0, bound), ex)
                    ELSE Ok(ci, ex)
      [] i = 1 ->
           IF ci.upper_bound = None THEN Ok(set(ci, 1, bound), ex)
           ELSE LET c == CompareWithCalled("le", bound, ci.upper_bound, call)
                IN  IF IsRaise(c) THEN c
                    ELSE IF Truthy(c.value) THEN Ok(set(ci, 1, bound), ex)
                    ELSE Ok(ci, ex)
      [] OTHER -> Raise("IndexError")

\* the strict bound taken over without the adjustment by one
Shifted_unadjusted(bound, d) ==
    IF bound.kind = "Constant"
    THEN [status |-> "ok", value |-> Constant(bound.value)]
    ELSE Raise("AttributeError")

\* Z3Expression.new_constant(bound.value + d): AttributeError without .value
Shifted(bound, d) ==
    IF bound.kind = "Constant"
    THEN [status |-> "ok", value |-> Constant(bound.value + d)]
    ELSE Raise("AttributeError")

\* the strict cases: shift the bound, then _check_and_set_bounds
ShiftAndSet(i, bound, d, ci, ex, call) ==
    LET s == Shifted(bound, d)
    IN  IF IsRaise(s) THEN s
        ELSE _check_and_set_bounds(i, s.value, ci, ex, call)

\* the match with the second branch of case gt a copy of its first branch
MatchInequality_copied(possible_inequality, variable_index, bound, ci, ex, call) ==
    CASE possible_inequality = "ge" ->
           IF variable_index = 1
           THEN _check_and_set_bounds(0, bound, ci, ex, call)
           ELSE IF variable_index = 2
           THEN _check_and_set_bounds(1, bound, ci, ex, call)
           ELSE Ok(ci, ex)
      [] possible_inequality = "le" ->
           IF variable_index = 1
           THEN _check_and_set_bounds(1, bound, ci, ex, call)
           ELSE IF variable_index = 2
           THEN _check_and_set_bounds(0, bound, ci, ex, call)
           ELSE Ok(ci, ex)
      [] possible_inequality = "gt" ->
           IF variable_index = 1
           THEN ShiftAndSet(0, bound, 1, ci, ex, call)
           ELSE IF variable_index = 2
           THEN ShiftAndSet(0, bound, 1, ci, ex, call)
           ELSE Ok(ci, ex)
      [] possible_inequality = "lt" ->
           IF variable_index = 1
           THEN ShiftAndSet(1, bound, -1, ci, ex, call)
           ELSE IF variable_index = 2
           THEN ShiftAndSet(0, bound, 1, ci, ex, call)
           ELSE Ok(ci, ex)
      [] OTHER -> Raise("ValueError")

\* lines 145-171: the match on the operator; each case is two separate ifs
\* on variable_index, so a variable_index that is neither 1 nor 2 sets nothing
MatchInequality(possible_inequality, variable_index, bound, ci, ex, call) ==
    CASE possible_inequality = "ge" ->
           IF variable_index = 1
           THEN _check_and_set_bounds(0, bound, ci, ex, call)
           ELSE IF variable_index = 2
           THEN _check_and_set_bounds(1, bound, ci, ex, call)
           ELSE Ok(ci, ex)
      [] possible_inequality = "le" ->
           IF variable_index = 1
           THEN _check_and_set_bounds(1, bound, ci, ex, call)
           ELSE IF variable_index = 2
           THEN _check_and_set_bounds(0, bound, ci, ex, call)
           ELSE Ok(ci, ex)
      [] possible_inequality = "gt" ->
           IF variable_index = 1
           THEN ShiftAndSet(0, bound, 1, ci, ex, call)
           ELSE IF variable_index = 2
           THEN ShiftAndSet(1, bound, -1, ci, ex, call)
           ELSE Ok(ci, ex)
      [] possible_inequality = "lt" ->
           IF variable_index = 1
           THEN ShiftAndSet(1, bound, -1, ci, ex, call)
           ELSE IF variable_index = 2
           THEN ShiftAndSet(0, bound, 1, ci, ex, call)
           ELSE Ok(ci, ex)
      [] OTHER -> Raise("ValueError")

\* the extractor without the raise of line 143: variable_index and bound
\* stay None and the match sets nothing
_extract_bound_from_constraint_unraised(idx, c, ci, ex, call) ==
    LET possible_inequality == Sub(c, 0).value
        variable_index ==
            IF syntactic_eq(Sub(c, 1), idx) THEN 1
            ELSE IF syntactic_eq(Sub(c, 2), idx) THEN 2
            ELSE 0
        bound == IF variable_index = 1 THEN Sub(c, 2)
                 ELSE IF variable_index = 2 THEN Sub(c, 1)
                 ELSE None
    IN  MatchInequality(possible_inequality, variable_index, bound, ci, ex, call)

\* lines 132-143, then the match; variable_index 0 stands for "neither side"
_extract_bound_from_constraint(idx, c, ci, ex, call) ==
    LET possible_inequality == Sub(c, 0).value
        variable_index ==
            IF syntactic_eq(Sub(c, 1), idx) THEN 1
            ELSE IF syntactic_eq(Sub(c, 2), idx) THEN 2
            ELSE 0
        bound == IF variable_index = 1 THEN Sub(c, 2) ELSE Sub(c, 1)
    IN  IF variable_index = 0 THEN Raise("ValueError")
        ELSE MatchInequality(possible_inequality, variable_index, bound, ci, ex, call)

(* ------------------------------ inputs -------------------------------- *)

Bounds == {Constant(v) : v \in 1 .. MaxConst} \cup {Variable("n")}

Operators == {"ge", "le", "gt", "lt", "eq"}

\* atomic relations with the index on one side
IndexRelations ==
    {FunctionApplication(op, index, b) : op \in Operators, b \in Bounds}
    \cup {FunctionApplication(op, b, index) : op \in Operators, b \in Bounds}

\* an atomic relation that does not mention the index
ForeignRelation == FunctionApplication("ge", Variable("n"), Constant(1))

\* a child that is no FunctionApplication (a boolean variable)
NonRelational == Variable("p")

Children == IndexRelations \cup {ForeignRelation, NonRelational}

\* the conjunction of the children: subexpressions = [and_, child, ...]
Conjunction(children) ==
    [kind |-> "FunctionApplication",
     subexpressions |-> <<OperatorConstant("and_")>> \o children]

Constraints ==
    {Conjunction(s) : s \in UNION {[1 .. k -> Children] : k \in 0 .. MaxChildren}}

NotCalled == [status |-> "not called"]

(* ------------------------------ actions ------------------------------- *)

\* from_constraints, lines 113-114
Init ==
    /\ constraint \in Constraints
    /\ pos = 0
    /\ closed_interval = ClosedInterval(None, None)
    /\ exceptions = <<>>
    /\ pc = "loop"
    /\ result = NotCalled
    /\ iter_result = NotCalled
    /\ method_result = NotCalled
    /\ context_result = NotCalled

\* lines 115-116, a subexpression that is no FunctionApplication: next one
SkipSubexpression ==
    /\ pc = "loop"
    /\ pos < Len(constraint.subexpressions)
    /\ ~IsFunctionApplication(Sub(constraint, pos))
    /\ pos' = pos + 1
    /\ UNCHANGED <<constraint, closed_interval, exceptions, pc, result,
                   iter_result, method_result, context_result>>

\* lines 115-117, a FunctionApplication: _extract_bound_from_constraint
ExtractSubexpression ==
    /\ pc = "loop"
    /\ pos < Len(constraint.subexpressions)
    /\ IsFunctionApplication(Sub(constraint, pos))
    /\ \E call \in CallOutcomes :
         LET r == _extract_bound_from_constraint(
                      index, Sub(constraint, pos), closed_interval, exceptions, call)
         IN  IF IsRaise(r)
             THEN /\ pc' = "raised"
                  /\ result' = r
                  /\ UNCHANGED <<pos, closed_interval, exceptions>>
             ELSE /\ closed_interval' = r.closed_interval
                  /\ exceptions' = r.exceptions
                  /\ pos' = pos + 1
                  /\ UNCHANGED <<pc, result>>
    /\ UNCHANGED <<constraint, iter_result, method_result, context_result>>

\* line 119
Return ==
    /\ pc = "loop"
    /\ pos = Len(constraint.subexpressions)
    /\ pc' = "returned"
    /\ result' = [status |-> "ok",
                  value |-> DottedIntervals(closed_interval, exceptions)]
    /\ UNCHANGED <<constraint, pos, closed_interval, exceptions,
                   iter_result, method_result, context_result>>

\* the caller enumerates the returned interval (for v in interval)
Iterate ==
    /\ pc = "returned"
    /\ iter_result = NotCalled
    /\ iter_result' = Enumerate(result.value.interval)
    /\ UNCHANGED <<constraint, pos, closed_interval, exceptions, pc, result,
                   method_result, context_result>>

\* the caller calls the method itself, interval.__iter__()
CallIter ==
    /\ pc = "returned"
    /\ method_result = NotCalled
    /\ method_result' = ClosedInterval_iter(result.value.interval)
    /\ UNCHANGED <<constraint, pos, closed_interval, exceptions, pc, result,
                   iter_result, context_result>>

\* the caller builds the domain constraint of the returned interval
ToContext ==
    /\ pc = "returned"
    /\ context_result = NotCalled
    /\ \E o \in AndOutcomes :
         context_result' = to_context(result.value.interval, index, o)
    /\ UNCHANGED <<constraint, pos, closed_interval, exceptions, pc, result,
                   iter_result, method_result>>

Next ==
    \/ SkipSubexpression
    \/ ExtractSubexpression
    \/ Return
    \/ Iterate
    \/ CallIter
    \/ ToContext

Spec == Init /\ [][Next]_vars

(* ------------------------ vocabulary of the claims -------------------- *)

\* the children of the conjunction, in order
Kids == Tail(constraint.subexpressions)

\* from_constraints has ended, by return or by an exception
Finished == pc \in {"returned", "raised"}

\* x >= a, x <= b, x > a, x < b with the index on the left
Rel(op, v) == FunctionApplication(op, index, Constant(v))

\* the same relations written with the index on the right
RelRight(op, v) == FunctionApplication(op, Constant(v), index)

\* c is  index op constant
IsRel(c, op) ==
    /\ IsFunctionApplication(c)
    /\ Sub(c, 0).value = op
    /\ Sub(c, 1) = index
    /\ IsIntConstant(Sub(c, 2))

\* c is  constant op index
IsRelRight(c, op) ==
    /\ IsFunctionApplication(c)
    /\ Sub(c, 0).value = op
    /\ Sub(c, 2) = index
    /\ IsIntConstant(Sub(c, 1))

Interval(a, b) == ClosedInterval(Constant(a), Constant(b))

\* the run was from_constraints(x, x op1 a /\ x op2 b) and has ended
RanPair(op1, op2) ==
    /\ Finished
    /\ Len(Kids) = 2
    /\ IsRel(Kids[1], op1)
    /\ IsRel(Kids[2], op2)

\* C1: for constants a <= b, from_constraints(x, x >= a /\ x <= b) returns,
\* without raising, a DottedIntervals whose interval is [a, b].
Thm_C1 ==
    (RanPair("ge", "le") /\ Sub(Kids[1], 2).value <= Sub(Kids[2], 2).value)
    => /\ pc = "returned"
       /\ result.value.interval.lower_bound = Constant(Sub(Kids[1], 2).value)
       /\ result.value.interval.upper_bound = Constant(Sub(Kids[2], 2).value)

Wit_C1 ==
    /\ pc = "returned"
    /\ Kids = <<Rel("ge", 1), Rel("le", 3)>>
    /\ result.value.interval = Interval(1, 3)

\* C2: from_constraints(x, x > a /\ x < b) returns the interval [a+1, b-1],
\* which is the interval from_constraints(x, x >= a+1 /\ x <= b-1) returns:
\* a strict bound becomes an inclusive bound moved by one unit in the
\* tightening direction.
Thm_C2 ==
    /\ RanPair("gt", "lt")
       => /\ pc = "returned"
          /\ result.value.interval =
                 Interval(Sub(Kids[1], 2).value + 1, Sub(Kids[2], 2).value - 1)
    /\ RanPair("ge", "le")
       => /\ pc = "returned"
          /\ result.value.interval =
                 Interval(Sub(Kids[1], 2).value, Sub(Kids[2], 2).value)

Wit_C2 ==
    /\ pc = "returned"
    /\ Kids = <<Rel("gt", 1), Rel("lt", 3)>>
    /\ result.value.interval = Interval(2, 2)

\* C4: for constants a > b, from_constraints(x, x >= a /\ x <= b) returns the
\* inverted interval [a, b] without raising, and building the domain
\* constraint from it (to_context) raises instead of returning a constraint.
Thm_C4 ==
    (RanPair("ge", "le") /\ Sub(Kids[1], 2).value > Sub(Kids[2], 2).value)
    => /\ pc = "returned"
       /\ result.value.interval =
              Interval(Sub(Kids[1], 2).value, Sub(Kids[2], 2).value)
       /\ context_result # NotCalled => IsRaise(context_result)

Wit_C4 ==
    /\ pc = "returned"
    /\ Kids = <<Rel("ge", 3), Rel("le", 1)>>
    /\ result.value.interval = Interval(3, 1)
    /\ IsRaise(context_result)

\* a child that is an atomic relation with the index on neither side
IsForeign(c) ==
    /\ IsFunctionApplication(c)
    /\ Sub(c, 1) # index
    /\ Sub(c, 2) # index

HasForeign == \E i \in 1 .. Len(Kids) : IsForeign(Kids[i])

\* C7: if some atomic relation among the children has the index on neither
\* side, from_constraints never returns a DottedIntervals and ends by raising,
\* wherever the offending child stands and whatever was tightened before it.
Thm_C7 ==
    HasForeign =>
        /\ pc # "returned"
        /\ result = NotCalled \/ IsRaise(result)
        /\ Finished => pc = "raised"

Wit_C7 ==
    /\ pc = "raised"
    /\ Kids = <<Rel("ge", 2), ForeignRelation>>
    /\ closed_interval = ClosedInterval(Constant(2), None)
    /\ result = Raise("ValueError")

\* the operator of the mirrored relation
MirrorOp(op) ==
    CASE op = "ge" -> "le"
      [] op = "le" -> "ge"
      [] op = "gt" -> "lt"
      [] op = "lt" -> "gt"

\* b op x rewritten with the index on the left
Mirror(c) == FunctionApplication(MirrorOp(Sub(c, 0).value), Sub(c, 2), Sub(c, 1))

\* the extractor is about to process a relation  constant op index
AtRelRight ==
    /\ pc = "loop"
    /\ pos < Len(constraint.subexpressions)
    /\ \E op \in {"ge", "le", "gt", "lt"} : IsRelRight(Sub(constraint, pos), op)

\* C9: whatever interval the extractor has reached, a relation with the index
\* on the right is processed exactly like its mirror with the index on the
\* left: b >= x as x <= b, b <= x as x >= b, b > x as x < b (upper candidate
\* b-1), b < x as x > b (lower candidate b+1).
Thm_C9 ==
    AtRelRight =>
        \A call \in CallOutcomes :
            LET c == Sub(constraint, pos)
                b == Sub(c, 1).value
                got == _extract_bound_from_constraint(
                           index, c, closed_interval, exceptions, call)
            IN  /\ got = _extract_bound_from_constraint(
                             index, Mirror(c), closed_interval, exceptions, call)
                /\ (IsRelRight(c, "gt") /\ closed_interval.upper_bound = None)
                   => got = Ok(set(closed_interval, 1, Constant(b - 1)), exceptions)
                /\ (IsRelRight(c, "lt") /\ closed_interval.lower_bound = None)
                   => got = Ok(set(closed_interval, 0, Constant(b + 1)), exceptions)

Wit_C9 ==
    /\ pc = "returned"
    /\ Kids = <<Rel("ge", 1), RelRight("gt", 3)>>
    /\ result.value.interval = Interval(1, 2)

\* C3: enumerating a ClosedInterval whose bounds are the int constants
\* l <= u yields exactly l, l+1, ..., u, both endpoints included; with a bound
\* unset or not an int constant the enumeration fails with an error.
Cex_C3 ==
    iter_result # NotCalled =>
        LET ci == result.value.interval
        IN  IF IsIntConstant(ci.lower_bound) /\ IsIntConstant(ci.upper_bound)
            THEN ci.lower_bound.value <= ci.upper_bound.value
                 => /\ iter_result.status = "ok"
                    /\ iter_result.values =
                           [k \in 1 .. (ci.upper_bound.value - ci.lower_bound.value + 1)
                              |-> ci.lower_bound.value + k - 1]
            ELSE IsRaise(iter_result)

\* the integer an index-free bound or the index denotes when the index is v
Denote(e, v) == IF e = index THEN v ELSE e.value

\* the relation r holds when the index is v
Holds(r, v) ==
    LET op == Sub(r, 0).value
        l == Denote(Sub(r, 1), v)
        u == Denote(Sub(r, 2), v)
    IN  CASE op = "ge" -> l >= u
          [] op = "le" -> l <= u
          [] op = "gt" -> l > u
          [] op = "lt" -> l < u
          [] OTHER -> FALSE

\* the context c admits the value v of the index
Satisfies(c, v) == IsContext(c) /\ \A r \in c.assertions : Holds(r, v)

\* C5: for an interval with both bounds set, to_context(x) returns a
\* constraint that holds of an integer v exactly when lower <= v <= upper.
Cex_C5 ==
    LET ci == result.value.interval
    IN  (/\ context_result # NotCalled
         /\ ci.lower_bound # None
         /\ ci.upper_bound # None)
        => /\ context_result.status = "ok"
           /\ (IsIntConstant(ci.lower_bound) /\ IsIntConstant(ci.upper_bound))
              => \A v \in 0 .. MaxConst + 1 :
                     Satisfies(context_result.value, v)
                     <=> (ci.lower_bound.value <= v /\ v <= ci.upper_bound.value)

\* c is a relation between the index and an int constant under >=, <=, > or <
IsBoundRel(c) ==
    \E op \in {"ge", "le", "gt", "lt"} : IsRel(c, op) \/ IsRelRight(c, op)

\* the inclusive lower-bound candidate of a bound relation, as a set
LowerCandidate(c) ==
    IF IsRel(c, "ge") THEN {Sub(c, 2).value}
    ELSE IF IsRelRight(c, "le") THEN {Sub(c, 1).value}
    ELSE IF IsRel(c, "gt") THEN {Sub(c, 2).value + 1}
    ELSE IF IsRelRight(c, "lt") THEN {Sub(c, 1).value + 1}
    ELSE {}

\* the inclusive upper-bound candidate of a bound relation, as a set
UpperCandidate(c) ==
    IF IsRel(c, "le") THEN {Sub(c, 2).value}
    ELSE IF IsRelRight(c, "ge") THEN {Sub(c, 1).value}
    ELSE IF IsRel(c, "lt") THEN {Sub(c, 2).value - 1}
    ELSE IF IsRelRight(c, "gt") THEN {Sub(c, 1).value - 1}
    ELSE {}

Lowers == UNION {LowerCandidate(Kids[i]) : i \in 1 .. Len(Kids)}

Uppers == UNION {UpperCandidate(Kids[i]) : i \in 1 .. Len(Kids)}

Max(S) == CHOOSE m \in S : \A n \in S : n <= m

Min(S) == CHOOSE m \in S : \A n \in S : m <= n

\* a child the extractor cannot fold into a bound: a non-relational child, or
\* a relation over the index whose operator is none of >=, <=, >, <
NotFolded(c) ==
    \/ ~IsFunctionApplication(c)
    \/ /\ ~IsForeign(c)
       /\ Sub(c, 0).value \notin {"ge", "le", "gt", "lt"}

\* C6: every child that is not folded into a bound is appended verbatim to
\* the dots of the result, in discovery order, and extraction goes on to
\* return.  Stated for the conjunctions whose other children are bound
\* relations that target each bound at most once.
Cex_C6 ==
    (/\ Finished
     /\ \A i \in 1 .. Len(Kids) : NotFolded(Kids[i]) \/ IsBoundRel(Kids[i])
     /\ Cardinality({i \in 1 .. Len(Kids) : LowerCandidate(Kids[i]) # {}}) <= 1
     /\ Cardinality({i \in 1 .. Len(Kids) : UpperCandidate(Kids[i]) # {}}) <= 1)
    => /\ pc = "returned"
       /\ result.value.dots = SelectSeq(Kids, NotFolded)

\* C8: for any sequence of bound relations with int-constant bounds,
\* from_constraints returns without raising, with the maximum of the lower
\* candidates as lower bound and the minimum of the upper candidates as upper.
Cex_C8 ==
    (Finished /\ \A i \in 1 .. Len(Kids) : IsBoundRel(Kids[i]))
    => /\ pc = "returned"
       /\ result.value.interval.lower_bound =
              (IF Lowers = {} THEN None ELSE Constant(Max(Lowers)))
       /\ result.value.interval.upper_bound =
              (IF Uppers = {} THEN None ELSE Constant(Min(Uppers)))

\* C10: from_constraints(x, x >= a /\ x >= a) returns what
\* from_constraints(x, x >= a) returns, the interval [a, None], and likewise
\* [None, a] for a duplicated upper bound; the duplicate does not make the
\* extraction fail.
Cex_C10 ==
    (Finished /\ Len(Kids) = 2 /\ Kids[1] = Kids[2])
    => /\ IsRel(Kids[1], "ge")
          => /\ pc = "returned"
             /\ result.value.interval = ClosedInterval(Sub(Kids[1], 2), None)
       /\ IsRel(Kids[1], "le")
          => /\ pc = "returned"
             /\ result.value.interval = ClosedInterval(None, Sub(Kids[1], 2))

====
